---- MODULE Spec2Model ----
(***************************************************************************)
(* The search screen of the mobile client (SearchScreen): the query text,  *)
(* the team, the tab, the file filter, the two loading flags and the       *)
(* three result arrays, together with the asynchronous searches the        *)
(* handlers start and the continuations that commit their responses.       *)
(*                                                                         *)
(* Texts are sequences of characters, so that an empty text, a blank text  *)
(* and a text with content are three different things.  A handler runs to  *)
(* its first await in one step; the continuation after the await runs in   *)
(* the step in which the awaited promise settles (JavaScript runs it as a  *)
(* microtask of that same task, before any other event is delivered).      *)
(***************************************************************************)
EXTENDS Integers, Sequences, FiniteSets, TLC

VARIABLES
    searchValue,        \* useState(searchTerm): the text of the search box
    cursorPosition,     \* useState(searchTerm?.length)
    searchTeamId,       \* useState(teamId)
    selectedTab,        \* useState(TabTypes.MESSAGES)
    filter,             \* useState(FileFilters.ALL)
    showResults,        \* useState(false)
    loading,            \* useState(false)
    resultsLoading,     \* useState(false)
    lastSearchedValue,  \* useState('')
    postIds,            \* useState(emptyPostResults)
    fileInfos,          \* useState(emptyFileResults)
    fileChannelIds,     \* useState([])
    headerLocked,       \* the collapsible header: hideAndLock / showAndUnlock
    calls,              \* the asynchronous calls whose await has not returned
    nextId,             \* the number of asynchronous calls started so far, plus one
    sent,               \* what the last step sent to the collaborators, in order
    last,               \* the last step: its name and the call it started or ended
    newest,             \* the full search that was started last
    canDownloadFiles,   \* FileResults: the prop canDownloadFiles
    publicLinkEnabled,  \* FileResults: the prop publicLinkEnabled
    lastViewedIndex,    \* FileResults: useState(undefined)
    topComponentId,     \* NavigationStore.getNavigationTopComponentId()
    dismissals          \* the dismissBottomSheet() promises not yet resolved

vars == <<searchValue, cursorPosition, searchTeamId, selectedTab, filter,
          showResults, loading, resultsLoading, lastSearchedValue,
          postIds, fileInfos, fileChannelIds, headerLocked,
          calls, nextId, sent, last, newest,
          canDownloadFiles, publicLinkEnabled, lastViewedIndex,
          topComponentId, dismissals>>

\* The props and the state of FileResults, and the navigation it reads.
fileResultsVars == <<canDownloadFiles, publicLinkEnabled, lastViewedIndex,
                     topComponentId, dismissals>>

----------------------------------------------------------------------------
(* Bounds of the model.                                                    *)

\* The number of asynchronous calls (full searches and filter re-fetches)
\* one behaviour starts.
MaxCalls == 3

\* The texts the user types or picks: empty, blank, and one with content.
Texts == {<<>>, <<" ">>, <<"a">>}

\* The recent searches the initial component offers: texts with content.
RecentTexts == {<<"a">>}

Teams == {"team1", "team2"}

\* The teamId the screen is constructed with.
CurrentTeamId == "team1"

----------------------------------------------------------------------------
(* Constants of the screen.                                                *)

emptyFileResults == <<>>
emptyPostResults == <<>>
emptyChannelIds == <<>>

TabTypes == {"MESSAGES", "FILES"}

\* The closed set of file filters.
FileFilters ==
    {"ALL", "DOCUMENTS", "SPREADSHEETS", "PRESENTATIONS", "CODE",
     "IMAGES", "VIDEOS", "AUDIO", "OTHER"}

\* The filters the user picks in the model.
FilterChoices == {"ALL", "IMAGES"}

\* filterFileExtensions: the extension tokens of a filter, joined by spaces;
\* nothing for ALL and for no filter at all.
filterFileExtensions(filterValue) ==
    CASE filterValue = "ALL"           -> <<>>
      [] filterValue = "NONE"          -> <<>>
      [] filterValue = "DOCUMENTS"     -> <<"ext:doc", " ", "ext:pdf">>
      [] filterValue = "SPREADSHEETS"  -> <<"ext:xls", " ", "ext:csv">>
      [] filterValue = "PRESENTATIONS" -> <<"ext:ppt", " ", "ext:pptx">>
      [] filterValue = "CODE"          -> <<"ext:js", " ", "ext:ts">>
      [] filterValue = "IMAGES"        -> <<"ext:png", " ", "ext:jpg">>
      [] filterValue = "VIDEOS"        -> <<"ext:mp4", " ", "ext:mov">>
      [] filterValue = "AUDIO"         -> <<"ext:mp3", " ", "ext:wav">>
      [] OTHER                         -> <<"ext:zip", " ", "ext:bin">>

\* JavaScript's truth value of a string: every string but the empty one.
Truthy(s) == s # <<>>

\* A text with nothing but spaces in it (the empty text included).
IsBlank(s) == \A i \in 1..Len(s) : s[i] = " "

\* A getSearchParams that joins the text and the extension tokens with no
\* space between them.
getSearchParams_NoSpace(terms, filterValue) ==
    [terms |-> terms \o filterFileExtensions(filterValue),
     is_or_search |-> TRUE]

getSearchParams(terms, filterValue) ==
    LET fileExtensions == filterFileExtensions(filterValue)
        extensionTerms == IF Truthy(fileExtensions)
                          THEN <<" ">> \o fileExtensions
                          ELSE <<>>
    IN  [terms |-> terms \o extensionTerms, is_or_search |-> TRUE]

----------------------------------------------------------------------------
(* The collaborators: the post search, the file search and the history     *)
(* store.  A search answers with data, with nothing, or with an error      *)
(* object that carries no result field; the data it answers with is        *)
(* labelled with the team and the terms it was asked for.                  *)

Outcomes == {"data", "empty", "error"}

PostData(team, terms) ==
    <<[n |-> 1, team |-> team, terms |-> terms],
      [n |-> 2, team |-> team, terms |-> terms]>>

FileData(team, terms) == <<[file |-> 1, team |-> team, terms |-> terms]>>

ChannelData(team, terms) == <<[channel |-> 1, team |-> team, terms |-> terms]>>

\* The answer of searchPosts: {order}, or {error} with no order.
searchPosts(team, params, outcome) ==
    CASE outcome = "data"  -> [st |-> "ok", order |-> PostData(team, params.terms)]
      [] outcome = "empty" -> [st |-> "ok", order |-> <<>>]
      [] OTHER             -> [st |-> "error", order |-> <<>>]

\* The answer of searchFiles: {files, channels}, or {error} with neither.
searchFiles(team, params, outcome) ==
    CASE outcome = "data"  -> [st |-> "ok",
                               files |-> FileData(team, params.terms),
                               channels |-> ChannelData(team, params.terms)]
      [] outcome = "empty" -> [st |-> "ok", files |-> <<>>, channels |-> <<>>]
      [] OTHER             -> [st |-> "error", files |-> <<>>, channels |-> <<>>]

PendingPosts == [st |-> "pending", order |-> <<>>]
PendingFiles == [st |-> "pending", files |-> <<>>, channels |-> <<>>]
NoPosts == [st |-> "none", order |-> <<>>]
NoFiles == [st |-> "none", files |-> <<>>, channels |-> <<>>]

\* What a step sends: the history record of a full search, and the requests.
HistoryRecord(team, term) == [to |-> "history", team |-> team, arg |-> term]
PostsRequest(team, params) == [to |-> "searchPosts", team |-> team, arg |-> params]
FilesRequest(team, params) == [to |-> "searchFiles", team |-> team, arg |-> params]

----------------------------------------------------------------------------
(* The state hooks of the screen as one record: a handler reads the values *)
(* of the render it was created in (the unprimed variables) and its        *)
(* setState calls are the fields it changes in the record.                  *)

Screen ==
    [searchValue |-> searchValue, cursorPosition |-> cursorPosition,
     searchTeamId |-> searchTeamId, selectedTab |-> selectedTab,
     filter |-> filter, showResults |-> showResults, loading |-> loading,
     resultsLoading |-> resultsLoading,
     lastSearchedValue |-> lastSearchedValue, postIds |-> postIds,
     fileInfos |-> fileInfos, fileChannelIds |-> fileChannelIds,
     headerLocked |-> headerLocked]

\* The next render shows the record s.  FileResults, a component of its own
\* below the screen, keeps its props and its state.
Render(s) ==
    /\ UNCHANGED fileResultsVars
    /\ searchValue' = s.searchValue
    /\ cursorPosition' = s.cursorPosition
    /\ searchTeamId' = s.searchTeamId
    /\ selectedTab' = s.selectedTab
    /\ filter' = s.filter
    /\ showResults' = s.showResults
    /\ loading' = s.loading
    /\ resultsLoading' = s.resultsLoading
    /\ lastSearchedValue' = s.lastSearchedValue
    /\ postIds' = s.postIds
    /\ fileInfos' = s.fileInfos
    /\ fileChannelIds' = s.fileChannelIds
    /\ headerLocked' = s.headerLocked

NoCall ==
    [id |-> 0, kind |-> "none", team |-> "", term |-> <<>>,
     params |-> [terms |-> <<>>, is_or_search |-> TRUE], sr |-> FALSE,
     posts |-> NoPosts, files |-> NoFiles]

----------------------------------------------------------------------------
(* The handlers, as changes of the record of state hooks.                  *)

\* A cancel handler that forgets to reset the filter.
handleCancelAndClearSearch_KeepsFilter(s) ==
    [s EXCEPT !.headerLocked = FALSE,
              !.searchValue = <<>>,
              !.lastSearchedValue = <<>>,
              !.showResults = FALSE]

handleCancelAndClearSearch(s) ==
    [s EXCEPT !.headerLocked = FALSE,         \* showAndUnlock()
              !.searchValue = <<>>,
              !.lastSearchedValue = <<>>,
              !.filter = "ALL",
              !.showResults = FALSE]

handleTextChange(s, newValue) ==
    [s EXCEPT !.searchValue = newValue,
              !.cursorPosition = Len(newValue)]

\* A handleLoading that has the two flags the wrong way round.
handleLoading_Swapped(s, shown, show) ==
    IF shown
    THEN [s EXCEPT !.loading = show]
    ELSE [s EXCEPT !.resultsLoading = show]

\* shown is the showResults of the render the callback was created in.
handleLoading(s, shown, show) ==
    IF shown
    THEN [s EXCEPT !.resultsLoading = show]
    ELSE [s EXCEPT !.loading = show]

\* A handleSearch without its early return.
SearchStarts_Always(term) == TRUE

\* handleSearch returns early, through the cancel handler, when the terms
\* of the request are falsy.
SearchStarts(term) == Truthy(getSearchParams(term, "NONE").terms)

\* A handleSearch that leaves the filter alone.
handleSearchBegin_KeepsFilter(s, term) ==
    [handleLoading(s, showResults, TRUE)
        EXCEPT !.lastSearchedValue = term]

\* A handleSearch that sets lastSearchedValue only after its await.
handleSearchBegin_LateValue(s, term) ==
    [handleLoading(s, showResults, TRUE)
        EXCEPT !.filter = "ALL"]

\* A handleSearch that goes back to the messages tab.
handleSearchBegin_MessagesTab(s, term) ==
    [handleLoading(s, showResults, TRUE)
        EXCEPT !.filter = "ALL",
               !.lastSearchedValue = term,
               !.selectedTab = "MESSAGES"]

\* handleSearch up to its await, for terms that are not falsy.
handleSearchBegin(s, term) ==
    [handleLoading(s, showResults, TRUE)
        EXCEPT !.filter = "ALL",
               !.lastSearchedValue = term]

\* The call handleSearch leaves waiting at its await.
SearchCall(newSearchTeamId, term) ==
    [id |-> nextId, kind |-> "search", team |-> newSearchTeamId, term |-> term,
     params |-> getSearchParams(term, "NONE"), sr |-> showResults,
     posts |-> PendingPosts, files |-> PendingFiles]

\* A handleSearch that qualifies its terms with the filter chosen before.
SearchSends_WithFilter(newSearchTeamId, term) ==
    <<HistoryRecord(newSearchTeamId, term),
      PostsRequest(newSearchTeamId, getSearchParams(term, filter)),
      FilesRequest(newSearchTeamId, getSearchParams(term, filter))>>

\* A handleSearch that records the search after it has sent its requests.
SearchSends_HistoryLast(newSearchTeamId, term) ==
    <<PostsRequest(newSearchTeamId, getSearchParams(term, "NONE")),
      FilesRequest(newSearchTeamId, getSearchParams(term, "NONE")),
      HistoryRecord(newSearchTeamId, term)>>

\* What handleSearch sends before its await, in the order of the code.
SearchSends(newSearchTeamId, term) ==
    <<HistoryRecord(newSearchTeamId, term),
      PostsRequest(newSearchTeamId, getSearchParams(term, "NONE")),
      FilesRequest(newSearchTeamId, getSearchParams(term, "NONE"))>>

PostsOf(postResults) ==
    IF postResults.st = "ok" /\ Len(postResults.order) > 0
    THEN postResults.order
    ELSE emptyPostResults

\* A fallback with the two arms of its conditional exchanged.
FilesOf_Inverted(fileResults) ==
    IF fileResults.st = "ok" /\ Len(fileResults.files) > 0
    THEN emptyFileResults
    ELSE fileResults.files

FilesOf(fileResults) ==
    IF fileResults.st = "ok" /\ Len(fileResults.files) > 0
    THEN fileResults.files
    ELSE emptyFileResults

ChannelsOf(fileResults) ==
    IF fileResults.st = "ok" /\ Len(fileResults.channels) > 0
    THEN fileResults.channels
    ELSE emptyChannelIds

\* A handleSearch whose continuation lowers the flag that goes with the
\* showResults it has just set, not with the showResults of its own render.
handleSearchResume_FreshShowResults(s, c) ==
    handleLoading(
        [s EXCEPT !.fileInfos = FilesOf(c.files),
                  !.postIds = PostsOf(c.posts),
                  !.fileChannelIds = ChannelsOf(c.files),
                  !.showResults = TRUE,
                  !.headerLocked = TRUE],
        TRUE, FALSE)

\* handleSearch after its await, for the call c with both answers in.
handleSearchResume(s, c) ==
    handleLoading(
        [s EXCEPT !.fileInfos = FilesOf(c.files),
                  !.postIds = PostsOf(c.posts),
                  !.fileChannelIds = ChannelsOf(c.files),
                  !.showResults = TRUE,
                  !.headerLocked = TRUE],     \* hideAndLock()
        c.sr, FALSE)

\* A handleFilterChange that raises a loading flag as handleSearch does.
handleFilterChangeBegin_RaisesLoading(s, filterValue) ==
    handleLoading([s EXCEPT !.filter = filterValue], s.showResults, TRUE)

\* handleFilterChange up to its await.
handleFilterChangeBegin(s, filterValue) == [s EXCEPT !.filter = filterValue]

\* A handleFilterChange that builds its request from the text of the search
\* box instead of lastSearchedValue.
FilterCall_FromSearchBox(filterValue) ==
    [id |-> nextId, kind |-> "filter", team |-> searchTeamId,
     term |-> searchValue,
     params |-> getSearchParams(searchValue, filterValue),
     sr |-> showResults, posts |-> NoPosts, files |-> PendingFiles]

FilterCall(filterValue) ==
    [id |-> nextId, kind |-> "filter", team |-> searchTeamId,
     term |-> lastSearchedValue,
     params |-> getSearchParams(lastSearchedValue, filterValue),
     sr |-> showResults, posts |-> NoPosts, files |-> PendingFiles]

\* A handleFilterChange that goes back to ALL when its file search failed.
handleFilterChangeResume_RevertsOnError(s, c) ==
    [s EXCEPT !.fileInfos = FilesOf(c.files),
              !.fileChannelIds = ChannelsOf(c.files),
              !.filter = IF c.files.st = "error" THEN "ALL" ELSE @]

\* handleFilterChange after its await.
handleFilterChangeResume(s, c) ==
    [s EXCEPT !.fileInfos = FilesOf(c.files),
              !.fileChannelIds = ChannelsOf(c.files)]

\* The header of the results is rendered.
HeaderShown == Truthy(lastSearchedValue) /\ ~loading

\* renderItem renders the initial component.
InitialShown == ~loading /\ ~showResults

----------------------------------------------------------------------------
(* The steps.                                                              *)

\* lastViewedIndex before any options sheet was opened.
Undefined == -1

\* FileResults as it is mounted, with the props download and link.
FileResultsInit(download, link) ==
    /\ canDownloadFiles = download
    /\ publicLinkEnabled = link
    /\ lastViewedIndex = Undefined
    /\ topComponentId = "Search"
    /\ dismissals = <<>>

Init ==
    /\ FileResultsInit(TRUE, TRUE)
    /\ searchValue \in Texts
    /\ cursorPosition = Len(searchValue)
    /\ searchTeamId = CurrentTeamId
    /\ selectedTab = "MESSAGES"
    /\ filter = "ALL"
    /\ showResults = FALSE
    /\ loading = FALSE
    /\ resultsLoading = FALSE
    /\ lastSearchedValue = <<>>
    /\ postIds = emptyPostResults
    /\ fileInfos = emptyFileResults
    /\ fileChannelIds = <<>>
    /\ headerLocked = FALSE
    /\ calls = {}
    /\ nextId = 1
    /\ sent = <<>>
    /\ last = [op |-> "init", call |-> NoCall]
    /\ newest = NoCall

\* A call of handleSearch(newSearchTeamId, term) by the handler op, whose
\* own setState calls so far are in s.
handleSearch(s, newSearchTeamId, term, op) ==
    IF SearchStarts(term)
    THEN /\ nextId <= MaxCalls
         /\ Render(handleSearchBegin(s, term))
         /\ calls' = calls \cup {SearchCall(newSearchTeamId, term)}
         /\ nextId' = nextId + 1
         /\ sent' = SearchSends(newSearchTeamId, term)
         /\ last' = [op |-> op, call |-> SearchCall(newSearchTeamId, term)]
         /\ newest' = SearchCall(newSearchTeamId, term)
    ELSE /\ Render(handleCancelAndClearSearch(s))
         /\ sent' = <<>>
         /\ last' = [op |-> op, call |-> NoCall]
         /\ UNCHANGED <<calls, nextId, newest>>

TextChange(newValue) ==
    /\ Render(handleTextChange(Screen, newValue))
    /\ sent' = <<>>
    /\ last' = [op |-> "handleTextChange", call |-> NoCall]
    /\ UNCHANGED <<calls, nextId, newest>>

onSubmit == handleSearch(Screen, searchTeamId, searchValue, "onSubmit")

handleRecentSearch(text) ==
    /\ InitialShown
    /\ handleSearch(handleTextChange(Screen, text), searchTeamId, text,
                    "handleRecentSearch")

CancelAndClearSearch ==
    /\ Render(handleCancelAndClearSearch(Screen))
    /\ sent' = <<>>
    /\ last' = [op |-> "handleCancelAndClearSearch", call |-> NoCall]
    /\ UNCHANGED <<calls, nextId, newest>>

handleFilterChange(filterValue) ==
    /\ HeaderShown
    /\ nextId <= MaxCalls
    /\ Render(handleFilterChangeBegin(Screen, filterValue))
    /\ calls' = calls \cup {FilterCall(filterValue)}
    /\ nextId' = nextId + 1
    /\ sent' = <<FilesRequest(searchTeamId,
                              getSearchParams(lastSearchedValue, filterValue))>>
    /\ last' = [op |-> "handleFilterChange", call |-> FilterCall(filterValue)]
    /\ UNCHANGED newest

\* A handleResultsTeamChange that searches the team of the render it was
\* created in.
handleResultsTeamChange_RenderedTeam(newTeamId) ==
    /\ HeaderShown
    /\ handleSearch([Screen EXCEPT !.searchTeamId = newTeamId], searchTeamId,
                    lastSearchedValue, "handleResultsTeamChange")

handleResultsTeamChange(newTeamId) ==
    /\ HeaderShown
    /\ handleSearch([Screen EXCEPT !.searchTeamId = newTeamId], newTeamId,
                    lastSearchedValue, "handleResultsTeamChange")

\* setTeamId of the initial component.
setSearchTeamId(newTeamId) ==
    /\ InitialShown
    /\ Render([Screen EXCEPT !.searchTeamId = newTeamId])
    /\ sent' = <<>>
    /\ last' = [op |-> "setSearchTeamId", call |-> NoCall]
    /\ UNCHANGED <<calls, nextId, newest>>

\* onTabSelect of the header.
setSelectedTab(tab) ==
    /\ HeaderShown
    /\ Render([Screen EXCEPT !.selectedTab = tab])
    /\ sent' = <<>>
    /\ last' = [op |-> "setSelectedTab", call |-> NoCall]
    /\ UNCHANGED <<calls, nextId, newest>>

\* Promise.all of a full search settles for the call c: searchPosts has
\* answered with postOutcome and searchFiles with fileOutcome, in either
\* order.  The answer that comes first changes nothing the screen can see,
\* so the step is the one in which the second answer comes and handleSearch
\* resumes.
SearchSettles(c, postOutcome, fileOutcome) ==
    /\ c \in calls
    /\ c.kind = "search"
    /\ LET d == [c EXCEPT
                   !.posts = searchPosts(c.team, c.params, postOutcome),
                   !.files = searchFiles(c.team, c.params, fileOutcome)]
       IN  /\ Render(handleSearchResume(Screen, d))
           /\ last' = [op |-> "handleSearch.resume", call |-> d]
    /\ calls' = calls \ {c}
    /\ sent' = <<>>
    /\ UNCHANGED <<nextId, newest>>

\* searchFiles of a filter change settles for the call c and
\* handleFilterChange resumes.
FilterSettles(c, fileOutcome) ==
    /\ c \in calls
    /\ c.kind = "filter"
    /\ LET d == [c EXCEPT
                   !.files = searchFiles(c.team, c.params, fileOutcome)]
       IN  /\ Render(handleFilterChangeResume(Screen, d))
           /\ last' = [op |-> "handleFilterChange.resume", call |-> d]
    /\ calls' = calls \ {c}
    /\ sent' = <<>>
    /\ UNCHANGED <<nextId, newest>>

Next ==
    \/ \E newValue \in Texts : TextChange(newValue)
    \/ onSubmit
    \/ \E text \in RecentTexts : handleRecentSearch(text)
    \/ CancelAndClearSearch
    \/ \E filterValue \in FilterChoices : handleFilterChange(filterValue)
    \/ \E newTeamId \in Teams : handleResultsTeamChange(newTeamId)
    \/ \E newTeamId \in Teams : setSearchTeamId(newTeamId)
    \/ \E tab \in TabTypes : setSelectedTab(tab)
    \/ \E c \in calls, postOutcome \in Outcomes, fileOutcome \in Outcomes :
           SearchSettles(c, postOutcome, fileOutcome)
    \/ \E c \in calls, fileOutcome \in Outcomes : FilterSettles(c, fileOutcome)

Spec == Init /\ [][Next]_vars

----------------------------------------------------------------------------
(* Vocabulary of the properties.                                           *)

\* The handlers that call handleSearch.
SearchOps == {"onSubmit", "handleRecentSearch", "handleResultsTeamChange"}

\* The last step issued a full search: handleSearch went past its early return.
FullSearchIssued == last.op \in SearchOps /\ last.call.kind = "search"

\* The last step called handleSearch and took its early return.
SearchRefused == last.op \in SearchOps /\ last.call.kind = "none"

\* The last step resumed handleSearch after its await.
SearchCommitted == last.op = "handleSearch.resume"

\* A full search is waiting at its await.
SearchInFlight == \E c \in calls : c.kind = "search"

\* Every item of the array results was returned for the team and the terms.
AllFor(results, team, terms) ==
    \A i \in DOMAIN results : results[i].team = team /\ results[i].terms = terms

\* Every item of the array results was returned for the terms, of any team.
AllForTerms(results, terms) ==
    \A i \in DOMAIN results : results[i].terms = terms

----------------------------------------------------------------------------
(* C1: of two overlapping full searches, the result set that stays         *)
(* committed once both have resumed is the one returned for the search     *)
(* issued last: after the commit that leaves no full search waiting,       *)
(* postIds, fileInfos and fileChannelIds are those of the newest search's  *)
(* team and term.  Stated for searches of texts with content.              *)
C1_NewestSearchWins ==
    (/\ SearchCommitted
     /\ ~SearchInFlight
     /\ ~IsBlank(last.call.term)
     /\ ~IsBlank(newest.term)) =>
        /\ AllFor(postIds, newest.team, newest.params.terms)
        /\ AllFor(fileInfos, newest.team, newest.params.terms)
        /\ AllFor(fileChannelIds, newest.team, newest.params.terms)

----------------------------------------------------------------------------
(* C2: a submit of the empty text takes the screen to the cancelled state  *)
(* (no results shown, lastSearchedValue and the query text empty, filter   *)
(* ALL) and sends nothing: no history record, no post search, no file      *)
(* search, and no call is left waiting.                                    *)
C2_EmptySubmitCancels ==
    [][(last'.op = "onSubmit" /\ searchValue = <<>>) =>
          /\ showResults' = FALSE
          /\ lastSearchedValue' = <<>>
          /\ searchValue' = <<>>
          /\ filter' = "ALL"
          /\ sent' = <<>>
          /\ calls' = calls
          /\ nextId' = nextId]_vars

\* An empty submit was made while results of an earlier search were shown.
C2_Witness ==
    /\ last.op = "onSubmit"
    /\ SearchRefused
    /\ sent = <<>>
    /\ ~showResults
    /\ postIds # <<>>

----------------------------------------------------------------------------
----------------------------------------------------------------------------
(* C4, as claimed: handleResultsTeamChange leaves the filter as it was.    *)
C4_TeamChangeKeepsFilter ==
    [][last'.op = "handleResultsTeamChange" => filter' = filter]_vars

(* C4, amended: handleResultsTeamChange does not keep the filter: like     *)
(* every full search it sets the filter to ALL when the switch is issued,  *)
(* whatever the filter was, and the commit of the search leaves the filter *)
(* as it finds it.                                                         *)
C4_TeamChangeResetsFilter ==
    [][/\ last'.op = "handleResultsTeamChange" =>
              /\ filter' = "ALL"
              /\ searchTeamId' = last'.call.team
       /\ last'.op = "handleSearch.resume" => filter' = filter]_vars

\* The team was changed while the files of an IMAGES filter were shown.
C4_Witness ==
    /\ last.op = "handleResultsTeamChange"
    /\ FullSearchIssued
    /\ filter = "ALL"
    /\ fileInfos # <<>>
    /\ AllForTerms(fileInfos,
                   getSearchParams(lastSearchedValue, "IMAGES").terms)

----------------------------------------------------------------------------
----------------------------------------------------------------------------
(* C6: whenever results are shown, postIds, fileInfos and fileChannelIds   *)
(* were all returned for lastSearchedValue, the files and their channels   *)
(* for the request that lastSearchedValue and the current filter make.     *)
C6_ResultsMatchLastSearchedValue ==
    showResults =>
        /\ AllForTerms(postIds, getSearchParams(lastSearchedValue, "NONE").terms)
        /\ AllForTerms(fileInfos, getSearchParams(lastSearchedValue, filter).terms)
        /\ AllForTerms(fileChannelIds,
                       getSearchParams(lastSearchedValue, filter).terms)

----------------------------------------------------------------------------
----------------------------------------------------------------------------
(* C8: no request is waiting for a query text that is empty or blank.      *)
C8_NoBlankRequest ==
    /\ \A c \in calls : ~IsBlank(c.term)
    /\ \A i \in DOMAIN sent :
           sent[i].to # "history" => ~IsBlank(sent[i].arg.terms)

----------------------------------------------------------------------------
(* C9: while a full search is waiting for its answers, loading or          *)
(* resultsLoading is raised.                                               *)
C9_LoadingWhileInFlight == SearchInFlight => (loading \/ resultsLoading)

----------------------------------------------------------------------------
(* C10: a full search issued while no results are shown raises loading     *)
(* and leaves resultsLoading alone; issued while results are shown it      *)
(* raises resultsLoading and leaves loading alone, and leaves showResults  *)
(* and the three result arrays as they are.  Until a commit, the arrays    *)
(* do not change: postIds changes only when a full search resumes,         *)
(* fileInfos and fileChannelIds only when a full search or a filter        *)
(* change resumes, and shown results are hidden only by the cancel handler *)
(* (called by the user or by a search of the empty text).                  *)
C10_SearchRaisesOneFlag ==
    [][/\ FullSearchIssued' =>
              IF showResults
              THEN /\ resultsLoading'
                   /\ loading' = loading
                   /\ showResults'
                   /\ postIds' = postIds
                   /\ fileInfos' = fileInfos
                   /\ fileChannelIds' = fileChannelIds
              ELSE /\ loading'
                   /\ resultsLoading' = resultsLoading
       /\ postIds' # postIds => SearchCommitted'
       /\ (fileInfos' # fileInfos \/ fileChannelIds' # fileChannelIds) =>
              (SearchCommitted' \/ last'.op = "handleFilterChange.resume")
       /\ (showResults /\ ~showResults') =>
              (last'.op = "handleCancelAndClearSearch" \/ SearchRefused')]_vars

\* A search was issued over shown results: resultsLoading is up, loading is
\* not, and the results of the search before are still there.
C10_Witness ==
    /\ FullSearchIssued
    /\ last.call.sr
    /\ resultsLoading
    /\ ~loading
    /\ showResults
    /\ postIds # <<>>
    /\ fileInfos # <<>>

----------------------------------------------------------------------------
----------------------------------------------------------------------------
(* C12: handleFilterChange changes only filter, fileInfos and              *)
(* fileChannelIds.  Its first step, up to the request, changes filter and  *)
(* nothing else of the screen; its second step, after the answer, changes  *)
(* fileInfos and fileChannelIds and nothing else.  Neither step changes    *)
(* postIds, lastSearchedValue, searchValue, cursorPosition, selectedTab,   *)
(* searchTeamId, showResults, loading, resultsLoading or the header lock.  *)
C12_FilterChangeFrame ==
    [][/\ last'.op = "handleFilterChange" =>
              UNCHANGED <<searchValue, cursorPosition, searchTeamId,
                          selectedTab, showResults, loading, resultsLoading,
                          lastSearchedValue, postIds, fileInfos,
                          fileChannelIds, headerLocked>>
       /\ last'.op = "handleFilterChange.resume" =>
              UNCHANGED <<searchValue, cursorPosition, searchTeamId,
                          selectedTab, filter, showResults, loading,
                          resultsLoading, lastSearchedValue, postIds,
                          headerLocked>>]_vars

\* A filter change to IMAGES has put its files beside the posts of the
\* search, which are still there.
C12_Witness ==
    /\ last.op = "handleFilterChange.resume"
    /\ filter = "IMAGES"
    /\ showResults
    /\ postIds = PostData(searchTeamId, lastSearchedValue)
    /\ fileInfos =
           FileData(searchTeamId, getSearchParams(lastSearchedValue, "IMAGES").terms)
    /\ fileChannelIds # emptyChannelIds

----------------------------------------------------------------------------
(* C13: handleFilterChange sets filter to the chosen value in its first    *)
(* step, before its file search is answered: after that step the request   *)
(* it waits for is the one built from lastSearchedValue and the new value  *)
(* of filter.  The step that takes the answer leaves filter as it finds    *)
(* it, whether the answer holds files, holds none or is a failure.         *)
C13_FilterSetAtOnceAndKept ==
    [][/\ last'.op = "handleFilterChange" =>
              /\ last'.call \in calls'
              /\ last'.call.files.st = "pending"
              /\ last'.call.params = getSearchParams(lastSearchedValue, filter')
              /\ sent' = <<FilesRequest(searchTeamId, last'.call.params)>>
       /\ last'.op = "handleFilterChange.resume" => filter' = filter]_vars

\* The file search of a change to IMAGES has failed and the filter is still
\* IMAGES.
C13_Witness ==
    /\ last.op = "handleFilterChange.resume"
    /\ last.call.files.st = "error"
    /\ last.call.params = getSearchParams(lastSearchedValue, "IMAGES")
    /\ filter = "IMAGES"
    /\ fileInfos = emptyFileResults

----------------------------------------------------------------------------
(* C14: a full search issued by submitting a text, through onSubmit or     *)
(* through handleRecentSearch, leaves filter at ALL and sends a post       *)
(* search and a file search for the search team whose terms are exactly    *)
(* the submitted text, with no extension tokens, whatever filter was       *)
(* chosen before.                                                          *)
C14_SubmitSearchesPlainText ==
    (FullSearchIssued /\ last.op \in {"onSubmit", "handleRecentSearch"}) =>
        /\ filter = "ALL"
        /\ last.call.term = searchValue
        /\ Len(sent) = 3
        /\ sent[2] = [to |-> "searchPosts", team |-> searchTeamId,
                      arg |-> [terms |-> searchValue, is_or_search |-> TRUE]]
        /\ sent[3] = [to |-> "searchFiles", team |-> searchTeamId,
                      arg |-> [terms |-> searchValue, is_or_search |-> TRUE]]

\* A text was submitted while the files of an IMAGES filter were shown: the
\* filter is ALL again and the requests carry the text alone.
C14_Witness ==
    /\ FullSearchIssued
    /\ last.op = "onSubmit"
    /\ fileInfos = FileData(searchTeamId, getSearchParams(<<"a">>, "IMAGES").terms)
    /\ filter = "ALL"
    /\ sent[3].arg.terms = <<"a">>

----------------------------------------------------------------------------
(* C15: when a full search for a text that is not blank resumes with no    *)
(* other request waiting and no full search issued after it, postIds is    *)
(* the order the post search returned, fileInfos and fileChannelIds are    *)
(* the files and channels the file search returned, each the empty array   *)
(* when the answer has none, lastSearchedValue is the text that was        *)
(* searched, and the results are shown.                                    *)
C15_LoneSearchCommits ==
    (/\ SearchCommitted
     /\ calls = {}
     /\ newest.id = last.call.id
     /\ ~IsBlank(last.call.term)) =>
        /\ postIds = PostsOf(last.call.posts)
        /\ fileInfos = FilesOf(last.call.files)
        /\ fileChannelIds = ChannelsOf(last.call.files)
        /\ lastSearchedValue = last.call.term
        /\ showResults

----------------------------------------------------------------------------
(* C16: handleResultsTeamChange sets searchTeamId to the new team and      *)
(* issues a full search for that team with lastSearchedValue as its text:  *)
(* it sends a post search and a file search for the new team whose terms   *)
(* are lastSearchedValue.  When a full search resumes, postIds, fileInfos  *)
(* and fileChannelIds are all replaced by what was returned for the team   *)
(* and the text of that search.                                            *)
C16_TeamChangeSearchesNewTeam ==
    /\ last.op = "handleResultsTeamChange" =>
           /\ FullSearchIssued
           /\ last.call \in calls
           /\ last.call.team = searchTeamId
           /\ last.call.term = lastSearchedValue
           /\ Len(sent) = 3
           /\ sent[2] = [to |-> "searchPosts", team |-> searchTeamId,
                         arg |-> [terms |-> lastSearchedValue,
                                  is_or_search |-> TRUE]]
           /\ sent[3] = [to |-> "searchFiles", team |-> searchTeamId,
                         arg |-> [terms |-> lastSearchedValue,
                                  is_or_search |-> TRUE]]
    /\ SearchCommitted =>
           /\ postIds \in {PostData(last.call.team, last.call.term),
                           emptyPostResults}
           /\ fileInfos \in {FileData(last.call.team, last.call.term),
                             emptyFileResults}
           /\ fileChannelIds \in {ChannelData(last.call.team, last.call.term),
                                  emptyChannelIds}

\* The team was changed to team2 while the results of team1 were shown: the
\* search for team2 is waiting and the results of team1 are still there.
C16_Witness ==
    /\ last.op = "handleResultsTeamChange"
    /\ searchTeamId = "team2"
    /\ last.call.team = "team2"
    /\ lastSearchedValue = <<"a">>
    /\ showResults
    /\ postIds = PostData("team1", <<"a">>)

----------------------------------------------------------------------------
(* getSearchParams on its own: a text and a filter are drawn, and one step *)
(* applies the function to them.  searchValue holds the text and filter    *)
(* the filter argument, "NONE" standing for a call with no filter, as in   *)
(* handleSearch; the result is kept in last.call.params.                   *)

MaxLen == 2

\* The characters the texts are made of.
Chars == {" ", "a"}

ParamTexts == UNION {[1..n -> Chars] : n \in 0..MaxLen}

ParamFilters == FileFilters \cup {"NONE"}

ParamsInit ==
    /\ FileResultsInit(TRUE, TRUE)
    /\ searchValue \in ParamTexts
    /\ filter \in ParamFilters
    /\ cursorPosition = Len(searchValue)
    /\ searchTeamId = CurrentTeamId
    /\ selectedTab = "MESSAGES"
    /\ showResults = FALSE
    /\ loading = FALSE
    /\ resultsLoading = FALSE
    /\ lastSearchedValue = <<>>
    /\ postIds = emptyPostResults
    /\ fileInfos = emptyFileResults
    /\ fileChannelIds = emptyChannelIds
    /\ headerLocked = FALSE
    /\ calls = {}
    /\ nextId = 1
    /\ sent = <<>>
    /\ last = [op |-> "init", call |-> NoCall]
    /\ newest = NoCall

ParamsApply ==
    /\ last.op = "init"
    /\ last' = [op |-> "getSearchParams",
                call |-> [NoCall EXCEPT
                              !.term = searchValue,
                              !.params = getSearchParams(searchValue, filter)]]
    /\ UNCHANGED <<searchValue, cursorPosition, searchTeamId, selectedTab,
                   filter, showResults, loading, resultsLoading,
                   lastSearchedValue, postIds, fileInfos, fileChannelIds,
                   headerLocked, calls, nextId, sent, newest>>
    /\ UNCHANGED fileResultsVars

SpecParams == ParamsInit /\ [][ParamsApply]_vars

(* C17: for every text and every filter of the closed set, and for a call  *)
(* with no filter, getSearchParams returns a record of exactly terms and   *)
(* is_or_search, with is_or_search true; terms is the text itself for ALL  *)
(* and for no filter, and the text, one space and the extension tokens of  *)
(* the filter for every other filter.                                      *)
C17_ParamsAsNormalize ==
    last.op = "getSearchParams" =>
        LET p == last.call.params
        IN  /\ DOMAIN p = {"terms", "is_or_search"}
            /\ p.is_or_search = TRUE
            /\ filter \in {"ALL", "NONE"} => p.terms = searchValue
            /\ filter \notin {"ALL", "NONE"} =>
                   /\ Len(p.terms) = Len(searchValue) + 1
                                         + Len(filterFileExtensions(filter))
                   /\ SubSeq(p.terms, 1, Len(searchValue)) = searchValue
                   /\ p.terms[Len(searchValue) + 1] = " "
                   /\ SubSeq(p.terms, Len(searchValue) + 2, Len(p.terms)) =
                          filterFileExtensions(filter)

\* The function was applied to a text that ends in a space and to the
\* filter DOCUMENTS.
C17_Witness ==
    /\ last.op = "getSearchParams"
    /\ searchValue = <<"a", " ">>
    /\ filter = "DOCUMENTS"
    /\ last.call.params.terms = <<"a", " ", " ", "ext:doc", " ", "ext:pdf">>

----------------------------------------------------------------------------
(* C18: an older file search never overwrites a newer one.  The request    *)
(* issued last is the one built from lastSearchedValue and filter, which   *)
(* every handler sets when it issues its request; so once the answer to a  *)
(* filter change has been taken and no request is waiting, with results    *)
(* shown for a text that is not blank, fileInfos and fileChannelIds hold   *)
(* what was returned for lastSearchedValue qualified by filter, or         *)
(* nothing.                                                                *)
C18_NewestFileSearchWins ==
    (/\ last.op = "handleFilterChange.resume"
     /\ calls = {}
     /\ showResults
     /\ ~IsBlank(lastSearchedValue)) =>
        /\ AllForTerms(fileInfos, getSearchParams(lastSearchedValue, filter).terms)
        /\ AllForTerms(fileChannelIds,
                       getSearchParams(lastSearchedValue, filter).terms)

----------------------------------------------------------------------------
(* The two answers of a full search one at a time.  handleSearch waits at  *)
(* await Promise.all([searchPosts, searchFiles]): the answer that comes    *)
(* first is kept by the promise and handleSearch stays where it is; the    *)
(* answer that comes second lets it resume with both.                      *)

MaxArrivalCalls == 2

\* A handleSearch that takes the post answer as soon as it is there.
handleSearchWaits_TakesPosts(s, d) ==
    [s EXCEPT !.postIds = PostsOf(d.posts)]

\* handleSearch while one of its two answers is still to come, d being the
\* call with the answer that has come.
handleSearchWaits(s, d) == s

\* One answer has come for the call d: handleSearch waits when the other is
\* still to come and resumes when both are there.
Arrives(c, d, first) ==
    /\ IF d.posts.st = "pending" \/ d.files.st = "pending"
       THEN /\ Render(handleSearchWaits(Screen, d))
            /\ calls' = (calls \ {c}) \cup {d}
            /\ last' = [op |-> first, call |-> d]
       ELSE /\ Render(handleSearchResume(Screen, d))
            /\ calls' = calls \ {c}
            /\ last' = [op |-> "handleSearch.resume", call |-> d]
    /\ sent' = <<>>
    /\ UNCHANGED <<nextId, newest>>

\* searchPosts settles for the call c.
PostsArrive(c, postOutcome) ==
    /\ c \in calls
    /\ c.kind = "search"
    /\ c.posts.st = "pending"
    /\ Arrives(c, [c EXCEPT !.posts = searchPosts(c.team, c.params, postOutcome)],
               "searchPosts.first")

\* searchFiles of a full search settles for the call c.
FilesArrive(c, fileOutcome) ==
    /\ c \in calls
    /\ c.kind = "search"
    /\ c.files.st = "pending"
    /\ Arrives(c, [c EXCEPT !.files = searchFiles(c.team, c.params, fileOutcome)],
               "searchFiles.first")

\* What becomes of a record handed to the history store.
HistoryOutcomes == {"recorded", "failed"}

\* handleSearch does not await addSearchToTeamSearchHistory and keeps no
\* reference to what it returns: nothing of the screen waits for the outcome.
handleHistorySettled(s, outcome) == s

\* The history store is done with the record of a full search that is still
\* waiting for its answers.
HistorySettles(outcome) ==
    /\ SearchInFlight
    /\ Render(handleHistorySettled(Screen, outcome))
    /\ sent' = <<>>
    /\ last' = [op |-> "addSearchToTeamSearchHistory." \o outcome,
                call |-> NoCall]
    /\ UNCHANGED <<calls, nextId, newest>>

ArrivalsNext ==
    /\ \/ \E newValue \in Texts : TextChange(newValue)
       \/ onSubmit
       \/ \E text \in RecentTexts : handleRecentSearch(text)
       \/ CancelAndClearSearch
       \/ \E filterValue \in FilterChoices : handleFilterChange(filterValue)
       \/ \E newTeamId \in Teams : handleResultsTeamChange(newTeamId)
       \/ \E newTeamId \in Teams : setSearchTeamId(newTeamId)
       \/ \E tab \in TabTypes : setSelectedTab(tab)
       \/ \E c \in calls, postOutcome \in Outcomes : PostsArrive(c, postOutcome)
       \/ \E c \in calls, fileOutcome \in Outcomes : FilesArrive(c, fileOutcome)
       \/ \E c \in calls, fileOutcome \in Outcomes : FilterSettles(c, fileOutcome)
       \/ \E outcome \in HistoryOutcomes : HistorySettles(outcome)
    /\ nextId' <= MaxArrivalCalls + 1

SpecArrivals == Init /\ [][ArrivalsNext]_vars

\* The last step took the first of a full search's two answers.
FirstArrived == last.op \in {"searchPosts.first", "searchFiles.first"}

(* C19: the two requests of a full search are forked and joined.  Both are *)
(* sent in the step that issues the search, when neither has been          *)
(* answered.  The step in which the first answer comes, whichever of the   *)
(* two it is, changes nothing of the screen: not the result arrays, not    *)
(* showResults, not a loading flag.  The step in which the second answer   *)
(* comes sets the three arrays from the two answers alone, so the          *)
(* committed arrays do not depend on which answer came first.              *)
C19_ForkJoin ==
    [][/\ FullSearchIssued' =>
              /\ Len(sent') = 3
              /\ sent'[2] = PostsRequest(last'.call.team, last'.call.params)
              /\ sent'[3] = FilesRequest(last'.call.team, last'.call.params)
              /\ last'.call.posts.st = "pending"
              /\ last'.call.files.st = "pending"
       /\ FirstArrived' =>
              /\ last'.call \in calls'
              /\ (last'.call.posts.st = "pending") #
                     (last'.call.files.st = "pending")
              /\ UNCHANGED <<searchValue, cursorPosition, searchTeamId,
                             selectedTab, filter, showResults, loading,
                             resultsLoading, lastSearchedValue, postIds,
                             fileInfos, fileChannelIds, headerLocked>>
       /\ SearchCommitted' =>
              /\ \E c \in calls :
                     /\ c.id = last'.call.id
                     /\ (c.posts.st = "pending") # (c.files.st = "pending")
              /\ last'.call.posts.st # "pending"
              /\ last'.call.files.st # "pending"
              /\ postIds' = PostsOf(last'.call.posts)
              /\ fileInfos' = FilesOf(last'.call.files)
              /\ fileChannelIds' = ChannelsOf(last'.call.files)
              /\ showResults']_vars

\* The files of a search have come and its posts have not: the files are
\* kept back and the screen still shows the loading component.
C19_Witness ==
    /\ last.op = "searchFiles.first"
    /\ last.call.files.st = "ok"
    /\ last.call.files.files # <<>>
    /\ last.call.posts.st = "pending"
    /\ fileInfos = emptyFileResults
    /\ ~showResults
    /\ loading

----------------------------------------------------------------------------
\* The last step was the history store finishing with a record.
HistorySettled ==
    last.op \in {"addSearchToTeamSearchHistory.recorded",
                 "addSearchToTeamSearchHistory.failed"}

(* C20: the step that issues a full search hands the team and the text of  *)
(* the search to the history store exactly once, ahead of the post search  *)
(* and the file search it sends; no other step hands the store anything.   *)
(* When the store is done with a record, with or without success, nothing  *)
(* of the screen changes and the requests that are waiting keep waiting.   *)
C20_HistoryFirstAndForgotten ==
    [][/\ FullSearchIssued' =>
              /\ Len(sent') = 3
              /\ sent'[1] = [to |-> "history", team |-> last'.call.team,
                             arg |-> last'.call.term]
              /\ sent'[2].to = "searchPosts"
              /\ sent'[3].to = "searchFiles"
       /\ ~FullSearchIssued' =>
              \A i \in DOMAIN sent' : sent'[i].to # "history"
       /\ HistorySettled' =>
              UNCHANGED <<searchValue, cursorPosition, searchTeamId,
                          selectedTab, filter, showResults, loading,
                          resultsLoading, lastSearchedValue, postIds,
                          fileInfos, fileChannelIds, headerLocked, calls,
                          nextId, newest>>]_vars

\* The store has failed to record a search whose two requests are still
\* waiting for their answers.
C20_Witness ==
    /\ last.op = "addSearchToTeamSearchHistory.failed"
    /\ loading
    /\ \E c \in calls :
           /\ c.kind = "search"
           /\ c.term = lastSearchedValue
           /\ c.posts.st = "pending"
           /\ c.files.st = "pending"

----------------------------------------------------------------------------
(* C21: selectedTab is changed by setSelectedTab and by nothing else: a    *)
(* step of any other handler, the arrival of any answer included, leaves   *)
(* selectedTab as it is.  A step of setSelectedTab changes selectedTab and *)
(* nothing else: it sends no request, leaves the waiting calls waiting,    *)
(* and leaves the filter, the texts, the team, the flags and the result    *)
(* arrays unchanged.                                                       *)
C21_TabFrame ==
    [][/\ last'.op # "setSelectedTab" => selectedTab' = selectedTab
       /\ last'.op = "setSelectedTab" =>
              /\ sent' = <<>>
              /\ UNCHANGED <<searchValue, cursorPosition, searchTeamId,
                             filter, showResults, loading, resultsLoading,
                             lastSearchedValue, postIds, fileInfos,
                             fileChannelIds, headerLocked, calls, nextId,
                             newest>>]_vars

\* The files tab was selected, and it is still selected after a full search
\* issued from the results has resumed.
C21_Witness ==
    /\ SearchCommitted
    /\ last.call.sr
    /\ selectedTab = "FILES"
    /\ filter = "ALL"
    /\ postIds # emptyPostResults

----------------------------------------------------------------------------
(* C23: after the cancel handler has run, results stay hidden until the    *)
(* next full search is issued, even when a search that was waiting at the  *)
(* time resumes afterwards; that is, in every state in which results are   *)
(* shown lastSearchedValue is not empty.                                   *)
C23_ShownImpliesSearched == showResults => Truthy(lastSearchedValue)

----------------------------------------------------------------------------
(* The screen with fetches that settle.  The steps are those of Next, for  *)
(* at most MaxLiveCalls requests; every request that is waiting is         *)
(* answered in the end, with data, with nothing or with a failure, which   *)
(* is weak fairness of the step that takes an answer.                      *)

MaxLiveCalls == 2

\* Some waiting request is answered and its handler resumes.
Settles ==
    \/ \E c \in calls, postOutcome \in Outcomes, fileOutcome \in Outcomes :
           SearchSettles(c, postOutcome, fileOutcome)
    \/ \E c \in calls, fileOutcome \in Outcomes : FilterSettles(c, fileOutcome)

LiveNext ==
    /\ Next
    /\ nextId' <= MaxLiveCalls + 1

SpecLive == Init /\ [][LiveNext]_vars /\ WF_vars(Settles)

----------------------------------------------------------------------------
(* FileResults, the list of files below the results.  It opens a bottom    *)
(* sheet with the options of a file, remembers the index of that file in   *)
(* lastViewedIndex, and has an effect that runs when canDownloadFiles or   *)
(* publicLinkEnabled changes.  The navigation is taken as it is used:      *)
(* bottomSheet puts a bottom sheet on top, dismissBottomSheet returns a    *)
(* promise that resolves when the sheet is gone, and the user or another   *)
(* component may close or open a sheet at any time.  sent holds what the   *)
(* last step asked of the navigation.                                      *)

MaxFiles == 2

MaxDismissals == 2

\* The SearchScreen above, which the steps of FileResults leave alone.
screenVars == <<searchValue, cursorPosition, searchTeamId, selectedTab,
                filter, showResults, loading, resultsLoading,
                lastSearchedValue, postIds, fileInfos, fileChannelIds,
                headerLocked, calls, nextId, newest>>

\* The number of options snapPoints is computed from.
numberOptions(download, link) ==
    1 + (IF download THEN 1 ELSE 0) + (IF link THEN 1 ELSE 0)

\* The request bottomSheet gets from handleOptionsPress(item), created in a
\* render with the props download and link.
OpenSheet(item, download, link) ==
    [to |-> "bottomSheet", item |-> item,
     numberOptions |-> numberOptions(download, link)]

DismissSheet == [to |-> "dismissBottomSheet"]

\* An effect that reopens with the handleOptionsPress of the render before.
Reopening_RenderBefore(download, link) ==
    [item |-> lastViewedIndex,
     open |-> OpenSheet(lastViewedIndex, canDownloadFiles, publicLinkEnabled)]

\* What the effect leaves to do after dismissBottomSheet(): the call
\* handleOptionsPress(lastViewedIndex) of the render with the new props.
Reopening(download, link) ==
    [item |-> lastViewedIndex,
     open |-> OpenSheet(lastViewedIndex, download, link)]

\* The results with the files tab selected, FileResults mounted.
FilesInit ==
    /\ \E download \in BOOLEAN, link \in BOOLEAN :
           FileResultsInit(download, link)
    /\ searchValue = <<"a">>
    /\ cursorPosition = 1
    /\ searchTeamId = CurrentTeamId
    /\ selectedTab = "FILES"
    /\ filter = "ALL"
    /\ showResults = TRUE
    /\ loading = FALSE
    /\ resultsLoading = FALSE
    /\ lastSearchedValue = <<"a">>
    /\ postIds = PostData(CurrentTeamId, <<"a">>)
    /\ fileInfos = [i \in 1..MaxFiles |->
                        [file |-> i, team |-> CurrentTeamId, terms |-> <<"a">>]]
    /\ fileChannelIds = ChannelData(CurrentTeamId, <<"a">>)
    /\ headerLocked = TRUE
    /\ calls = {}
    /\ nextId = 1
    /\ sent = <<>>
    /\ last = [op |-> "init", call |-> NoCall]
    /\ newest = NoCall

\* The options of the file at index item are pressed in the list.
handleOptionsPress(item) ==
    /\ topComponentId # "BottomSheet"
    /\ lastViewedIndex' = item
    /\ topComponentId' = "BottomSheet"
    /\ sent' = <<OpenSheet(item, canDownloadFiles, publicLinkEnabled)>>
    /\ last' = [op |-> "handleOptionsPress", call |-> NoCall]
    /\ UNCHANGED <<canDownloadFiles, publicLinkEnabled, dismissals>>
    /\ UNCHANGED screenVars

\* The bottom sheet on top is closed by the user.
SheetClosed ==
    /\ topComponentId = "BottomSheet"
    /\ topComponentId' = "Search"
    /\ sent' = <<>>
    /\ last' = [op |-> "sheetClosed", call |-> NoCall]
    /\ UNCHANGED <<canDownloadFiles, publicLinkEnabled, lastViewedIndex,
                   dismissals>>
    /\ UNCHANGED screenVars

\* Another component puts a bottom sheet of its own on top.
SheetOpenedElsewhere ==
    /\ topComponentId # "BottomSheet"
    /\ topComponentId' = "BottomSheet"
    /\ sent' = <<>>
    /\ last' = [op |-> "sheetOpenedElsewhere", call |-> NoCall]
    /\ UNCHANGED <<canDownloadFiles, publicLinkEnabled, lastViewedIndex,
                   dismissals>>
    /\ UNCHANGED screenVars

\* The props change to download and link, and the effect runs.
PropsChange(download, link) ==
    /\ <<download, link>> # <<canDownloadFiles, publicLinkEnabled>>
    /\ Len(dismissals) < MaxDismissals
    /\ canDownloadFiles' = download
    /\ publicLinkEnabled' = link
    /\ IF lastViewedIndex = Undefined
       THEN /\ sent' = <<>>
            /\ UNCHANGED dismissals
       ELSE IF topComponentId = "BottomSheet"
            THEN /\ sent' = <<DismissSheet>>
                 /\ dismissals' = Append(dismissals, Reopening(download, link))
            ELSE /\ sent' = <<>>
                 /\ UNCHANGED dismissals
    /\ last' = [op |-> "propsChange", call |-> NoCall]
    /\ UNCHANGED <<lastViewedIndex, topComponentId>>
    /\ UNCHANGED screenVars

\* The oldest dismissBottomSheet() resolves, the sheet being gone, and its
\* then callback calls handleOptionsPress.
DismissResolves ==
    /\ dismissals # <<>>
    /\ dismissals' = Tail(dismissals)
    /\ lastViewedIndex' = Head(dismissals).item
    /\ topComponentId' = "BottomSheet"
    /\ sent' = <<Head(dismissals).open>>
    /\ last' = [op |-> "dismissBottomSheet.then", call |-> NoCall]
    /\ UNCHANGED <<canDownloadFiles, publicLinkEnabled>>
    /\ UNCHANGED screenVars

FilesNext ==
    \/ \E item \in 0..(Len(fileInfos) - 1) : handleOptionsPress(item)
    \/ SheetClosed
    \/ SheetOpenedElsewhere
    \/ \E download \in BOOLEAN, link \in BOOLEAN : PropsChange(download, link)
    \/ DismissResolves

SpecFiles == FilesInit /\ [][FilesNext]_vars

(* C22: when canDownloadFiles or publicLinkEnabled changes in FileResults  *)
(* and an options sheet has been opened before (lastViewedIndex is         *)
(* defined) and a bottom sheet is the top component, the step of the       *)
(* change asks for the sheet to be dismissed and for nothing else, and     *)
(* leaves behind one reopening, for the same index and with                *)
(* 1 + (canDownloadFiles ? 1 : 0) + (publicLinkEnabled ? 1 : 0) options    *)
(* counted from the new props; the sheet is opened only in a later step,   *)
(* when the dismissal has resolved, for exactly that index and that number *)
(* of options.  When no options sheet was ever opened, or no bottom sheet  *)
(* is on top, the change dismisses nothing and opens nothing.              *)
C22_DismissThenReopen ==
    [][/\ last'.op = "propsChange" =>
              IF lastViewedIndex # Undefined /\ topComponentId = "BottomSheet"
              THEN /\ sent' = <<[to |-> "dismissBottomSheet"]>>
                   /\ Len(dismissals') = Len(dismissals) + 1
                   /\ dismissals'[Len(dismissals')].open =
                          [to |-> "bottomSheet", item |-> lastViewedIndex,
                           numberOptions |->
                               1 + (IF canDownloadFiles' THEN 1 ELSE 0)
                                 + (IF publicLinkEnabled' THEN 1 ELSE 0)]
                   /\ UNCHANGED <<lastViewedIndex, topComponentId>>
              ELSE /\ sent' = <<>>
                   /\ UNCHANGED <<lastViewedIndex, topComponentId, dismissals>>
       /\ last'.op = "dismissBottomSheet.then" =>
              /\ dismissals # <<>>
              /\ sent' = <<dismissals[1].open>>
              /\ dismissals' = Tail(dismissals)
              /\ lastViewedIndex' = dismissals[1].open.item
       /\ last'.op \notin {"handleOptionsPress", "dismissBottomSheet.then"} =>
              \A i \in DOMAIN sent' : sent'[i].to # "bottomSheet"]_vars

\* The props changed to both true while the options of the second file were
\* open: the sheet was dismissed and is open again for the same file, with
\* three options.
C22_Witness ==
    /\ last.op = "dismissBottomSheet.then"
    /\ canDownloadFiles
    /\ publicLinkEnabled
    /\ lastViewedIndex = 1
    /\ topComponentId = "BottomSheet"
    /\ dismissals = <<>>
    /\ sent = <<[to |-> "bottomSheet", item |-> 1, numberOptions |-> 3]>>

====
